---- MODULE Spec2Model ----
(***************************************************************************)
(* Model of the runc task shim's process lifecycle engine and I/O relay    *)
(* (crates/runc-shim/src/asynchronous/runc.rs).                            *)
(*                                                                         *)
(* One container id is modelled, with its init process and MaxExecs exec   *)
(* processes.  Lifecycle operations are serialised (one in flight at a     *)
(* time); init create and exec start are multi-step calls whose position   *)
(* is kept in `call`, every other operation is a single step.  `ret`       *)
(* describes the call that returned in the step leading to the current     *)
(* state, and is NoRet in every other state.                               *)
(***************************************************************************)
EXTENDS Integers, Sequences, FiniteSets, TLC

\* ------------------------------------------------------------------ bounds
MaxExecs == 1
MaxPid   == 3
MaxWired == 1

Execs == 1..MaxExecs
INIT  == 0
Procs == {INIT} \cup Execs
PIDs  == 1..MaxPid
Streams == {"stdin", "stdout", "stderr"}
Slots == Procs \X Streams
\* the states of a process that has a record
Live == {"CREATED", "RUNNING", "STOPPED"}
Codes == {0, 1}
Times == {1}
\* signal numbers of a kill request: nix's Signal has no signal 0
ValidSignals == {9}
Signals == {0} \cup ValidSignals

\* --------------------------------------------------- error message strings
\* Messages are sequences of characters so that to_lowercase() and
\* contains() are computed, not assumed.
UpperToLower ==
  [c \in {"D", "O", "E", "S", "N", "T", "X", "I", "B", "U", "Y"} |->
     CASE c = "D" -> "d" [] c = "O" -> "o" [] c = "E" -> "e" [] c = "S" -> "s"
       [] c = "N" -> "n" [] c = "T" -> "t" [] c = "X" -> "x" [] c = "I" -> "i"
       [] c = "B" -> "b" [] c = "U" -> "u" [] c = "Y" -> "y"]

ToLowerChar(c) == IF c \in DOMAIN UpperToLower THEN UpperToLower[c] ELSE c

ToLower(s) == [i \in 1..Len(s) |-> ToLowerChar(s[i])]

Contains(s, sub) ==
  \E i \in 0..(Len(s) - Len(sub)) :
     \A j \in 1..Len(sub) : s[i + j] = sub[j]

DoesNotExist == <<"d","o","e","s"," ","n","o","t"," ","e","x","i","s","t">>

\* messages the runtime prints when the container is unknown to it
MsgAbsentLower == <<"i","d"," ">> \o DoesNotExist
MsgAbsentMixed == <<"D","o","e","s"," ","N","o","t"," ","E","x","i","s","t">>
MsgAbsentUpper == <<"D","O","E","S"," ","N","O","T"," ","E","X","I","S","T">>
\* messages of other failures
MsgBusy        == <<"b","u","s","y">>
MsgNotExists   == <<"d","o","e","s"," ","n","o","t"," ","e","x","i","t">>

AbsentMsgs == {MsgAbsentLower, MsgAbsentMixed, MsgAbsentUpper}
OtherMsgs  == {MsgBusy, MsgNotExists}

\* ------------------------------------------------------------------- state
VARIABLES
  container,    \* TRUE while a RuncContainer record exists for the id
  state,        \* ProcessTemplate.state per process ("NONE": no record)
  pid,          \* ProcessTemplate.pid
  exit_code,    \* ProcessTemplate.exit_code
  exited_at,    \* ProcessTemplate.exited_at (0: None)
  console,      \* ProcessTemplate.console is Some
  stdio,        \* ProcessTemplate.stdio (TRUE: the path is non-empty)
  exit_signal,  \* the lifecycle's ExitSignal has been fired
  rt,           \* the OCI runtime's view of the container
  alive,        \* the OS process the runtime started for the record lives
  pending,      \* exit code of a reaped process whose exit event is not yet
                \* applied to its record (-1: no event)
  tasks,        \* copy tasks, by process and stream
  call,         \* the create / start call in flight
  ret,          \* the call that has just returned
  subs,         \* exit monitor: ids of the live subscriptions
  next_id,      \* exit monitor: the id the next subscription gets
  chan,         \* the bounded channel of each subscription; an event is named
                \* by its position in the order of notification
  notified,     \* the exit events notified so far, in order
  sent,         \* per subscription, the events forwarded to it
  received,     \* per subscription, the events its wait_pid got from rx.recv()
  exec          \* the calls of ShimExecutor::execute, by subscription id

record == <<state, pid, exit_code, exited_at, console, stdio, exit_signal>>
world  == <<rt, alive, pending>>

shim == <<container, record, world, tasks, call, ret>>
mon == <<subs, next_id, chan, notified, sent, received, exec>>

vars == <<shim, mon>>

NoStdio == [stdin |-> FALSE, stdout |-> FALSE, stderr |-> FALSE, terminal |-> FALSE]
Stdio(i, o, e, t) == [stdin |-> i, stdout |-> o, stderr |-> e, terminal |-> t]
\* the stdio of the requests: every stream is wired by one configuration and
\* left empty by another, in terminal mode and in pipe mode
StdioConfigs == {Stdio(TRUE, TRUE, FALSE, TRUE), Stdio(FALSE, FALSE, FALSE, TRUE),
                 Stdio(TRUE, FALSE, TRUE, FALSE), Stdio(FALSE, TRUE, FALSE, FALSE)}

NoTask == [owner |-> -1, stream |-> "none", status |-> "none", cur |-> FALSE,
           fired |-> FALSE, keep |-> FALSE]

\* sock is the ConsoleSocket the call created: "none", "listening" (its path
\* exists) or "cleaned" (clean() removed the path)
NoCall == [op |-> "none", proc |-> -1, pc |-> "none", sock |-> "none",
           pio |-> FALSE, copy |-> FALSE]

\* res: "ok", "err" or "cancelled"; kind: the error kind; pre: the state of the
\* process when the call was made; sig: whether its ExitSignal was fired then;
\* sock: the ConsoleSocket of the call as the call leaves it; msg: the error
\* message of the runtime invocation of a delete (<<>>: it succeeded);
\* effect: what the call did outside the record ("os_kill", "runtime_kill",
\* "cgroup_write", "cgroup_read", "runtime_ps", "exec_delete": delete was
\* called on the execs of the container, or "none"); to: the pid an OS
\* signal was sent to; signal, all: the arguments of a kill
NoRet == [op |-> "none", proc |-> -1, res |-> "none", kind |-> "none",
          pre |-> "NONE", sig |-> FALSE, sock |-> "none", msg |-> <<>>,
          effect |-> "none", to |-> 0, signal |-> 0, all |-> FALSE]

Return(op, p, res, kind, pre, sig, sk) ==
  [op |-> op, proc |-> p, res |-> res, kind |-> kind, pre |-> pre, sig |-> sig,
   sock |-> sk, msg |-> <<>>, effect |-> "none", to |-> 0, signal |-> 0,
   all |-> FALSE]

\* r with the outcome o (res, kind, effect, to) of a kill or a query
WithOutcome(r, o) ==
  [r EXCEPT !.res = o.res, !.kind = o.kind, !.effect = o.effect, !.to = o.to]

\* no call is in flight and the result of the last one has been handed back
Quiet == ret.op = "none"
Idle == call.op = "none" /\ Quiet

\* ------------------------------------------------------- exit monitor, state
MaxSubs == 2
MaxEvents == 3
\* capacity of the channel of a subscription
Cap == 2

SubIds == 1 .. MaxSubs
EventIds == 1 .. MaxEvents
\* pids of the children that ShimExecutor spawns
ChildPids == {1, 2}
\* the exit events the SIGCHLD handler can notify: each pid with the wait
\* status of its process
ExitEvents == {[pid |-> 1, code |-> 0], [pid |-> 2, code |-> 1]}

\* pc: "none" (no call), "nosub" (the subscribe failed and execute returned
\* its error), "subscribed", "waiting" (in wait_pid), "waited"
\* (wait_pid returned), "done", "failed" (spawn failed); out, err: the read_std
\* of the stdout and of the stderr of the child has completed; code: what wait_pid returned;
\* missed: an exit of the child was notified while wait_pid was waiting on a
\* subscription that was no longer in the table
NoExec == [pc |-> "none", pid |-> 0, code |-> -1, out |-> FALSE, err |-> FALSE,
           missed |-> FALSE]

MonitorInit ==
  /\ subs = {}
  /\ next_id = 1
  /\ chan = [id \in SubIds |-> <<>>]
  /\ notified = <<>>
  /\ sent = [id \in SubIds |-> {}]
  /\ received = [id \in SubIds |-> <<>>]
  /\ exec = [id \in SubIds |-> NoExec]

Init ==
  /\ MonitorInit
  /\ container = FALSE
  /\ state = [p \in Procs |-> "NONE"]
  /\ pid = [p \in Procs |-> 0]
  /\ exit_code = [p \in Procs |-> 0]
  /\ exited_at = [p \in Procs |-> 0]
  /\ console = [p \in Procs |-> FALSE]
  /\ stdio = [p \in Procs |-> NoStdio]
  /\ exit_signal = [p \in Procs |-> FALSE]
  /\ rt = "none"
  /\ alive = [p \in Procs |-> FALSE]
  /\ pending = [p \in Procs |-> -1]
  /\ tasks = [s \in Slots |-> NoTask]
  /\ call = NoCall
  /\ ret = NoRet

\* ----------------------------------------------------------------- helpers
\* no copy task of p is left from an earlier call
NoTasksOf(p) == \A st \in Streams : tasks[<<p, st>>].status = "none"

\* the stdio names at least one FIFO
Wired(io) == io.stdin \/ io.stdout \/ io.stderr

\* a further process with wired stdio fits the bound
RoomFor(p, io) ==
  Wired(io) => Cardinality({q \in Procs \ {p} : Wired(stdio[q])}) < MaxWired

\* ExitSignal::signal() of the processes ps, as seen by the copy tasks that
\* hold a clone of those signals
Fire_All(ts, ps) ==
  [s \in Slots |-> IF ts[s].cur THEN [ts[s] EXCEPT !.fired = TRUE] ELSE ts[s]]

Fire(ts, ps) ==
  [s \in Slots |-> IF ts[s].owner \in ps /\ ts[s].cur
                     THEN [ts[s] EXCEPT !.fired = TRUE] ELSE ts[s]]

\* the records of ps are dropped: their ExitSignals can no longer be fired
Orphan(ts, ps) ==
  [s \in Slots |-> IF ts[s].owner \in ps /\ ts[s].cur
                     THEN [ts[s] EXCEPT !.cur = FALSE] ELSE ts[s]]

\* tokio::spawn of the copy future: the task exists ("running") until its
\* select! completes; ExitSignal is a level, so a task first polled after the
\* signal fired finds the wait branch ready like one polled before
spawn_copy(ts, p, stream, keep) ==
  [ts EXCEPT ![<<p, stream>>] =
     [owner |-> p, stream |-> stream, status |-> "running", cur |-> TRUE,
      fired |-> exit_signal[p], keep |-> keep]]

\* variant: copy_io without the is_empty tests
IoPc_All(io, k) ==
  IF k <= 1 THEN "io_stdin"
  ELSE IF k <= 2 THEN "io_stdout"
  ELSE IF k <= 3 THEN "io_stderr"
  ELSE "read_pid"

\* first wiring step of copy_io at or after stage k (1 stdin, 2 stdout, 3 stderr)
IoPc(io, k) ==
  IF k <= 1 /\ io.stdin THEN "io_stdin"
  ELSE IF k <= 2 /\ io.stdout THEN "io_stdout"
  ELSE IF k <= 3 /\ io.stderr THEN "io_stderr"
  ELSE "read_pid"

\* first wiring step of copy_console at or after stage k (1 stdin, 2 stdout)
ConsolePc(io, k) ==
  IF k <= 1 /\ io.stdin THEN "con_stdin"
  ELSE IF k <= 2 /\ io.stdout THEN "con_stdout"
  ELSE "con_done"

\* copy_io_or_console: which relay is wired once the runtime call succeeded
copy_io_or_console(io, copy) ==
  IF io.terminal THEN "accept"
  ELSE IF copy THEN IoPc(io, 1)
  ELSE "read_pid"

\* The pid the runtime writes to the pid-file of a process it started, and
\* that is read back from it: the lowest pid no process record holds.
FreePids == PIDs \ {pid[q] : q \in Procs}

NewPid == CHOOSE n \in FreePids : \A m \in FreePids : n <= m

\* variant: the result of do_create is not propagated by a `?`
Dropped_Never(op, res) == FALSE

\* `self.do_create(&mut init, config).await?`: the InitProcess of a create that
\* does not succeed is dropped and no RuncContainer is built
Dropped(op, res) == op = "create" /\ res # "ok"

\* The call in flight returns (or its future is dropped).  st1, pid1, con1, ts1
\* and sk are the record's state, pid and console, the copy tasks and the
\* console socket at that point.  A create that does not succeed drops its
\* InitProcess; a start leaves the ExecProcess in the container's map.
Finish(res, kind, st1, pid1, con1, ts1, sk) ==
  LET p == call.proc
      dropped == Dropped(call.op, res)
  IN /\ state' = [state EXCEPT ![p] = IF dropped THEN "NONE" ELSE st1]
     /\ pid' = [pid EXCEPT ![p] = IF dropped THEN 0 ELSE pid1]
     /\ console' = [console EXCEPT ![p] = IF dropped THEN FALSE ELSE con1]
     /\ stdio' = [stdio EXCEPT ![p] = IF dropped THEN NoStdio ELSE @]
     /\ tasks' = IF dropped THEN Orphan(ts1, {p}) ELSE ts1
     /\ container' = IF call.op = "create" THEN ~dropped ELSE container
     /\ call' = NoCall
     /\ ret' = Return(call.op, p, res, kind,
                      IF call.op = "create" THEN "NONE" ELSE state[p],
                      exit_signal[p], sk)
     /\ UNCHANGED <<exit_code, exited_at, exit_signal>>

\* variant: the pid is stored before the step that fails
Fail_PidWritten(kind) ==
  Finish("err", kind, state[call.proc],
         IF FreePids = {} THEN pid[call.proc] ELSE NewPid,
         console[call.proc], tasks, call.sock)

\* an error is returned with `?`: nothing else runs
Fail(kind) == Finish("err", kind, state[call.proc], pid[call.proc],
                     console[call.proc], tasks, call.sock)

\* the call goes on at pc1 with the copy tasks ts1
Continue(pc1, ts1) ==
  /\ call' = [call EXCEPT !.pc = pc1]
  /\ tasks' = ts1
  /\ ret' = NoRet
  /\ UNCHANGED <<container, record>>

\* ------------------------------------------------------ init create (factory)
\* RuncFactory::create up to the call of do_create
CreateBegin(io, ok) ==
  /\ Idle /\ ~container /\ state[INIT] = "NONE"
  /\ NoTasksOf(INIT) /\ RoomFor(INIT, io)
  /\ IF ok
       THEN /\ state' = [state EXCEPT ![INIT] = "CREATED"]
            /\ stdio' = [stdio EXCEPT ![INIT] = io]
            /\ exit_signal' = [exit_signal EXCEPT ![INIT] = FALSE]
            /\ call' = [op |-> "create", proc |-> INIT,
                        pc |-> IF io.terminal THEN "socket_new" ELSE "create_io",
                        sock |-> "none", pio |-> FALSE, copy |-> FALSE]
            /\ ret' = NoRet
       ELSE /\ ret' = Return("create", INIT, "err", "Other", "NONE", FALSE, "none")
            /\ UNCHANGED <<state, stdio, exit_signal, call>>
  /\ UNCHANGED <<container, pid, exit_code, exited_at, console, world, tasks>>
  /\ UNCHANGED mon

\* RuncExecLifecycle::start up to the choice of terminal or pipe mode
ExecStartBegin(e) ==
  /\ Idle /\ container /\ state[e] # "NONE"
  /\ NoTasksOf(e)
  /\ call' = [op |-> "start", proc |-> e,
              pc |-> IF stdio[e].terminal THEN "socket_new" ELSE "create_io",
              sock |-> "none", pio |-> FALSE, copy |-> FALSE]
  /\ ret' = NoRet
  /\ UNCHANGED <<container, record, world, tasks>>
  /\ UNCHANGED mon

\* ConsoleSocket::new().await?
ConsoleSocketNew(ok) ==
  /\ Quiet
  /\ call.pc = "socket_new"
  /\ IF ok
       THEN /\ call' = [call EXCEPT !.pc = "runtime", !.sock = "listening"]
            /\ ret' = NoRet
            /\ UNCHANGED <<container, record, tasks>>
       ELSE Fail("Io")
  /\ UNCHANGED world
  /\ UNCHANGED mon

\* create_io(...)?  (no suspension point)
CreateIo(ok, copy) ==
  /\ Quiet
  /\ call.pc = "create_io"
  /\ IF ok
       THEN /\ call' = [call EXCEPT !.pc = "runtime", !.pio = TRUE, !.copy = copy]
            /\ ret' = NoRet
            /\ UNCHANGED <<container, record, tasks>>
       ELSE Fail("Io")
  /\ UNCHANGED world
  /\ UNCHANGED mon

\* variant: the error branch returns without s.clean()
CleanOnRuntimeError_Skip(sk) == sk

\* `if let Some(s) = socket { s.clean().await; }` on the error of the runtime
CleanOnRuntimeError(sk) == IF sk = "listening" THEN "cleaned" ELSE sk

RuntimeError ==
  Finish("err", "Other", state[call.proc], pid[call.proc], console[call.proc],
         tasks, CleanOnRuntimeError(call.sock))

\* runtime.create(...).await and the error branch of do_create
RuntimeCreate(ok) ==
  /\ Quiet /\ call.op = "create" /\ call.pc = "runtime"
  /\ IF ok
       THEN /\ rt = "none"
            /\ rt' = "created"
            /\ Continue(copy_io_or_console(stdio[INIT], call.copy), tasks)
       ELSE /\ RuntimeError
            /\ UNCHANGED rt
  /\ UNCHANGED <<alive, pending>>
  /\ UNCHANGED mon

\* runtime.exec(...).await and the error branch of start
RuntimeExec(ok) ==
  /\ Quiet /\ call.op = "start" /\ call.pc = "runtime"
  /\ IF ok
       THEN /\ rt \in {"created", "running"}
            /\ Continue(copy_io_or_console(stdio[call.proc], call.copy), tasks)
       ELSE RuntimeError
  /\ UNCHANGED world
  /\ UNCHANGED mon

\* ------------------------------------------------------------ terminal mode
\* copy_console failed: copy_io_or_console cleans the socket, then returns Err
ConsoleError ==
  Finish("err", "Io", state[call.proc], pid[call.proc], console[call.proc],
         tasks, "cleaned")

\* console_socket.accept().await?
ConsoleAccept(ok) ==
  /\ Quiet
  /\ call.pc = "accept"
  /\ IF ok THEN Continue("recv_fd", tasks) ELSE ConsoleError
  /\ UNCHANGED world
  /\ UNCHANGED mon

\* asyncify(receive_socket).await?
ReceiveFd(ok) ==
  /\ Quiet
  /\ call.pc = "recv_fd"
  /\ IF ok THEN Continue(ConsolePc(stdio[call.proc], 1), tasks) ELSE ConsoleError
  /\ UNCHANGED world
  /\ UNCHANGED mon

\* stdin block of copy_console: clone the console, open the FIFO for read and
\* for write, spawn the copy with the write end as keep-alive
ConsoleStdin(ok) ==
  /\ Quiet
  /\ call.pc = "con_stdin"
  /\ IF ok
       THEN Continue(ConsolePc(stdio[call.proc], 2),
                     spawn_copy(tasks, call.proc, "stdin", TRUE))
       ELSE ConsoleError
  /\ UNCHANGED world
  /\ UNCHANGED mon

\* stdout block of copy_console
ConsoleStdout(ok) ==
  /\ Quiet
  /\ call.pc = "con_stdout"
  /\ IF ok
       THEN Continue("con_done", spawn_copy(tasks, call.proc, "stdout", TRUE))
       ELSE ConsoleError
  /\ UNCHANGED world
  /\ UNCHANGED mon

\* copy_console returns the Console; copy_io_or_console cleans the socket and
\* stores the console on the process
ConsoleDone ==
  /\ Quiet
  /\ call.pc = "con_done"
  /\ console' = [console EXCEPT ![call.proc] = TRUE]
  /\ call' = [call EXCEPT !.pc = "read_pid", !.sock = "cleaned"]
  /\ ret' = NoRet
  /\ UNCHANGED <<container, state, pid, exit_code, exited_at, stdio,
                 exit_signal, world, tasks>>
  /\ UNCHANGED mon

\* ---------------------------------------------------------------- pipe mode
\* stdin block of copy_io
CopyIoStdin(ok) ==
  /\ Quiet
  /\ call.pc = "io_stdin"
  /\ IF ok
       THEN Continue(IoPc(stdio[call.proc], 2),
                     spawn_copy(tasks, call.proc, "stdin", FALSE))
       ELSE Fail("Io")
  /\ UNCHANGED world
  /\ UNCHANGED mon

\* stdout block of copy_io
CopyIoStdout(ok) ==
  /\ Quiet
  /\ call.pc = "io_stdout"
  /\ IF ok
       THEN Continue(IoPc(stdio[call.proc], 3),
                     spawn_copy(tasks, call.proc, "stdout", TRUE))
       ELSE Fail("Io")
  /\ UNCHANGED world
  /\ UNCHANGED mon

\* stderr block of copy_io
CopyIoStderr(ok) ==
  /\ Quiet
  /\ call.pc = "io_stderr"
  /\ IF ok
       THEN Continue("read_pid", spawn_copy(tasks, call.proc, "stderr", TRUE))
       ELSE Fail("Io")
  /\ UNCHANGED world
  /\ UNCHANGED mon

\* ------------------------------------------------------------ pid-file read
\* variant: exec start stores the pid and not the state
StateAfterPid_Keep(op, st) == st

\* state of the process once the pid was read: do_create leaves it as
\* constructed, exec start sets RUNNING
StateAfterPid(op, st) == IF op = "start" THEN "RUNNING" ELSE st

\* read_file_to_str(pid_path).await?.parse::<i32>()?, then the final stores
ReadPid(ok) ==
  /\ Quiet
  /\ call.pc = "read_pid"
  /\ IF ok
       THEN /\ FreePids # {}
            /\ Finish("ok", "none", StateAfterPid(call.op, state[call.proc]),
                      NewPid, console[call.proc], tasks, call.sock)
            /\ alive' = [alive EXCEPT ![call.proc] = TRUE]
            /\ pending' = [pending EXCEPT ![call.proc] = -1]
       ELSE /\ Fail("Other")
            /\ UNCHANGED <<alive, pending>>
  /\ UNCHANGED rt
  /\ UNCHANGED mon

\* ------------------------------------------------------------- cancellation
\* The future of the call is dropped while it is suspended at an await.
\* Nothing runs after the drop: locals are released, the socket path stays.
Cancel ==
  /\ Quiet /\ call.op # "none"
  /\ call.pc # "create_io"
  /\ Finish("cancelled", "none", state[call.proc], pid[call.proc],
            console[call.proc], tasks, call.sock)
  /\ UNCHANGED world
  /\ UNCHANGED mon

\* ------------------------------------------------------------ init lifecycle
\* variant: the state is stored before the runtime start is awaited
InitStartState_Early(ok, st) == "RUNNING"

\* RuncInitLifecycle::start: the state is stored only after the `?`
InitStartState(ok, st) == IF ok THEN "RUNNING" ELSE st

InitStart(ok) ==
  /\ Idle /\ container
  /\ ok => rt = "created"
  /\ rt' = IF ok THEN "running" ELSE rt
  /\ state' = [state EXCEPT ![INIT] = InitStartState(ok, @)]
  /\ ret' = Return("start", INIT, IF ok THEN "ok" ELSE "err",
                   IF ok THEN "none" ELSE "Other", state[INIT],
                   exit_signal[INIT], "none")
  /\ UNCHANGED <<container, pid, exit_code, exited_at, console, stdio,
                 exit_signal, alive, pending, tasks, call>>
  /\ UNCHANGED mon

\* variant: the message is searched without to_lowercase()
DeleteTolerated_CaseSensitive(msg) == Contains(msg, DoesNotExist)

\* the or_else closure of RuncInitLifecycle::delete: is the error tolerated?
DeleteTolerated(msg) == Contains(ToLower(msg), DoesNotExist)

\* RuncInitLifecycle::delete returns Ok(()) iff the runtime delete succeeded
\* or its error is tolerated
\* variant: an error of the runtime delete is never tolerated
InitDeleteOk_Strict(rtok, msg) == rtok

InitDeleteOk(rtok, msg) == rtok \/ DeleteTolerated(msg)

\* variant: the signal is fired before the error is propagated
InitDeleteSignals_Always(rtok, msg) == TRUE

\* RuncInitLifecycle::delete reaches self.exit_signal.signal() only past the
\* `?` that propagates an error that is not tolerated
InitDeleteSignals(rtok, msg) == rtok \/ DeleteTolerated(msg)

\* messages the runtime can fail with, given its view of the container
DeleteMsgs == IF rt = "none" THEN AbsentMsgs ELSE OtherMsgs

\* variant: the exec map is cleared without delete being called on the execs
DeleteExecs_Skip(es, execs) == es

\* RuncExecLifecycle::delete of every exec of the map: each fires the
\* ExitSignal of its exec and returns Ok
DeleteExecs(es, execs) == [p \in Procs |-> es[p] \/ p \in execs]

\* Delete of the init through the container: RuncInitLifecycle::delete, and on
\* success RuncExecLifecycle::delete for every exec, the exec map is cleared
\* and the container record discarded.
InitDelete(rtok, msg) ==
  /\ Idle /\ container
  /\ rtok => rt # "none"
  /\ msg \in IF rtok THEN {<<>>} ELSE DeleteMsgs
  /\ LET done == InitDeleteOk(rtok, msg)
         sig == InitDeleteSignals(rtok, msg)
         execs == {e \in Execs : state[e] # "NONE"}
         ts1 == IF sig THEN Fire(tasks, {INIT}) ELSE tasks
         es1 == [exit_signal EXCEPT ![INIT] = @ \/ sig]
     IN /\ rt' = IF rtok THEN "none" ELSE rt
        /\ alive' = IF rtok \/ done THEN [p \in Procs |-> FALSE] ELSE alive
        /\ exit_signal' = IF done THEN DeleteExecs(es1, execs) ELSE es1
        /\ tasks' = IF done THEN Orphan(Fire(ts1, execs), Procs) ELSE ts1
        /\ container' = ~done
        /\ state' = IF done THEN [p \in Procs |-> "NONE"] ELSE state
        /\ pid' = IF done THEN [p \in Procs |-> 0] ELSE pid
        /\ exit_code' = IF done THEN [p \in Procs |-> 0] ELSE exit_code
        /\ exited_at' = IF done THEN [p \in Procs |-> 0] ELSE exited_at
        /\ console' = IF done THEN [p \in Procs |-> FALSE] ELSE console
        /\ stdio' = IF done THEN [p \in Procs |-> NoStdio] ELSE stdio
        /\ pending' = IF done \/ rtok THEN [p \in Procs |-> -1] ELSE pending
        /\ ret' = [Return("delete", INIT, IF done THEN "ok" ELSE "err",
                          IF done THEN "none" ELSE "Other",
                          state[INIT], exit_signal[INIT], "none")
                     EXCEPT !.msg = IF rtok THEN <<>> ELSE msg,
                            !.effect = IF done /\ execs # {}
                                         THEN "exec_delete" ELSE "none"]
  /\ UNCHANGED call
  /\ UNCHANGED mon

\* The delete future is dropped at runtime.delete(...).await; the runtime
\* command it spawned may still complete (done) or not.
InitDeleteCancel(done) ==
  /\ Idle /\ container
  /\ done => rt # "none"
  /\ rt' = IF done THEN "none" ELSE rt
  /\ alive' = IF done THEN [p \in Procs |-> FALSE] ELSE alive
  /\ pending' = IF done THEN [p \in Procs |-> IF alive[p] THEN 1 ELSE pending[p]]
                ELSE pending
  /\ ret' = Return("delete", INIT, "cancelled", "none", state[INIT],
                   exit_signal[INIT], "none")
  /\ UNCHANGED <<container, record, tasks, call>>
  /\ UNCHANGED mon

\* variant: the runtime kill is not invoked
InitKillResult_Skip(ok) ==
  [res |-> "err", kind |-> "FailedPrecondition", effect |-> "none", to |-> 0]

\* RuncInitLifecycle::kill: always a runtime kill, whatever the state
InitKillResult(ok) ==
  [res |-> IF ok THEN "ok" ELSE "err", kind |-> IF ok THEN "none" ELSE "Other",
   effect |-> "runtime_kill", to |-> 0]

InitKill(ok) ==
  /\ Idle /\ container
  /\ ret' = WithOutcome(Return("kill", INIT, "none", "none", state[INIT],
                               exit_signal[INIT], "none"),
                        InitKillResult(ok))
  /\ UNCHANGED <<container, record, world, tasks, call>>
  /\ UNCHANGED mon

\* RuncInitLifecycle::update / stats (linux): pid check, then the cgroup call;
\* RuncInitLifecycle::ps: the runtime ps
\* variant: update and stats without the test of p.pid
InitQueryResult_NoPidTest(op, ppid, ok) ==
  [res |-> IF ok THEN "ok" ELSE "err", kind |-> IF ok THEN "none" ELSE "Other",
   effect |-> CASE op = "update" -> "cgroup_write"
                [] op = "stats" -> "cgroup_read"
                [] op = "ps" -> "runtime_ps",
   to |-> 0]

InitQueryResult(op, ppid, ok) ==
  IF op \in {"update", "stats"} /\ ppid <= 0
    THEN [res |-> "err", kind |-> "Other", effect |-> "none", to |-> 0]
    ELSE [res |-> IF ok THEN "ok" ELSE "err",
          kind |-> IF ok THEN "none" ELSE "Other",
          effect |-> CASE op = "update" -> "cgroup_write"
                       [] op = "stats" -> "cgroup_read"
                       [] op = "ps" -> "runtime_ps",
          to |-> 0]

InitQuery(op, ok) ==
  /\ Idle /\ container
  /\ op \in {"update", "stats", "ps"}
  /\ ret' = WithOutcome(Return(op, INIT, "none", "none", state[INIT],
                               exit_signal[INIT], "none"),
                        InitQueryResult(op, pid[INIT], ok))
  /\ UNCHANGED <<container, record, world, tasks, call>>
  /\ UNCHANGED mon

\* ------------------------------------------------------------ exec lifecycle
\* RuncExecFactory::create, and the insertion into the container's exec map
ExecCreate(e, io, ok) ==
  /\ Idle /\ container /\ state[e] = "NONE"
  /\ RoomFor(e, io)
  /\ IF ok
       THEN /\ state' = [state EXCEPT ![e] = "CREATED"]
            /\ pid' = [pid EXCEPT ![e] = 0]
            /\ exit_code' = [exit_code EXCEPT ![e] = 0]
            /\ exited_at' = [exited_at EXCEPT ![e] = 0]
            /\ console' = [console EXCEPT ![e] = FALSE]
            /\ stdio' = [stdio EXCEPT ![e] = io]
            /\ exit_signal' = [exit_signal EXCEPT ![e] = FALSE]
       ELSE UNCHANGED record
  /\ ret' = Return("exec", e, IF ok THEN "ok" ELSE "err",
                   IF ok THEN "none" ELSE "Other", "NONE", FALSE, "none")
  /\ UNCHANGED <<container, world, tasks, call>>
  /\ UNCHANGED mon

\* Signal::try_from(signal as i32) is Ok
ValidSignal(signal) == signal \in ValidSignals

\* variant: the exited_at test is left out
ExecKillResult_NoExitTest(ppid, pexited, signal, all, live) ==
  IF ppid <= 0
    THEN [res |-> "err", kind |-> "FailedPrecondition", effect |-> "none", to |-> 0]
  ELSE [res |-> IF live THEN "ok" ELSE "err",
        kind |-> IF live THEN "none" ELSE "Errno",
        effect |-> "os_kill", to |-> ppid]

\* variant: with `all` the signal goes to the process group
ExecKillResult_Group(ppid, pexited, signal, all, live) ==
  IF ppid <= 0
    THEN [res |-> "err", kind |-> "FailedPrecondition", effect |-> "none", to |-> 0]
  ELSE IF pexited # 0
    THEN [res |-> "err", kind |-> "NotFound", effect |-> "none", to |-> 0]
  ELSE IF ~ValidSignal(signal)
    THEN [res |-> "panic", kind |-> "none", effect |-> "none", to |-> 0]
  ELSE [res |-> IF live THEN "ok" ELSE "err",
        kind |-> IF live THEN "none" ELSE "Errno",
        effect |-> "os_kill", to |-> IF all THEN 0 - ppid ELSE ppid]

\* variant: a process the monitor has reaped is answered with NotFound,
\* without a signal
ExecKillResult_Reaped(ppid, pexited, signal, all, live) ==
  IF ppid <= 0
    THEN [res |-> "err", kind |-> "FailedPrecondition", effect |-> "none", to |-> 0]
  ELSE IF pexited # 0 \/ ~live
    THEN [res |-> "err", kind |-> "NotFound", effect |-> "none", to |-> 0]
  ELSE IF ~ValidSignal(signal)
    THEN [res |-> "panic", kind |-> "none", effect |-> "none", to |-> 0]
  ELSE [res |-> "ok", kind |-> "none", effect |-> "os_kill", to |-> ppid]

\* RuncExecLifecycle::kill on a process with pid ppid and exited_at pexited;
\* live: the OS still has a process of that pid
ExecKillResult(ppid, pexited, signal, all, live) ==
  IF ppid <= 0
    THEN [res |-> "err", kind |-> "FailedPrecondition", effect |-> "none", to |-> 0]
  ELSE IF pexited # 0
    THEN [res |-> "err", kind |-> "NotFound", effect |-> "none", to |-> 0]
  ELSE IF ~ValidSignal(signal)
    THEN [res |-> "panic", kind |-> "none", effect |-> "none", to |-> 0]
  ELSE [res |-> IF live THEN "ok" ELSE "err",
        kind |-> IF live THEN "none" ELSE "Errno",
        effect |-> "os_kill", to |-> ppid]

ExecKill(e, signal, all) ==
  /\ Idle /\ container /\ state[e] # "NONE"
  /\ ret' = WithOutcome([Return("kill", e, "none", "none", state[e],
                                exit_signal[e], "none")
                           EXCEPT !.signal = signal, !.all = all],
                        ExecKillResult(pid[e], exited_at[e], signal, all, alive[e]))
  /\ UNCHANGED <<container, record, world, tasks, call>>
  /\ UNCHANGED mon

\* RuncExecLifecycle::delete, and the removal from the container's exec map
ExecDelete(e) ==
  /\ Idle /\ container /\ state[e] # "NONE"
  /\ exit_signal' = [exit_signal EXCEPT ![e] = TRUE]
  /\ tasks' = Orphan(Fire(tasks, {e}), {e})
  /\ state' = [state EXCEPT ![e] = "NONE"]
  /\ pid' = [pid EXCEPT ![e] = 0]
  /\ exit_code' = [exit_code EXCEPT ![e] = 0]
  /\ exited_at' = [exited_at EXCEPT ![e] = 0]
  /\ console' = [console EXCEPT ![e] = FALSE]
  /\ stdio' = [stdio EXCEPT ![e] = NoStdio]
  /\ pending' = [pending EXCEPT ![e] = -1]
  /\ alive' = [alive EXCEPT ![e] = FALSE]
  /\ ret' = Return("delete", e, "ok", "none", state[e], exit_signal[e], "none")
  /\ UNCHANGED <<container, rt, call>>
  /\ UNCHANGED mon

\* variant: ps of an exec answered by the runtime as for the init process
ExecQueryResult_Ps(op) ==
  IF op = "ps"
  THEN [res |-> "ok", kind |-> "none", effect |-> "runtime_ps", to |-> 0]
  ELSE [res |-> "err", kind |-> "Unimplemented", effect |-> "none", to |-> 0]

\* RuncExecLifecycle::update / stats / ps
ExecQueryResult(op) ==
  [res |-> "err", kind |-> "Unimplemented", effect |-> "none", to |-> 0]

ExecQuery(e, op) ==
  /\ Idle /\ container /\ state[e] # "NONE"
  /\ op \in {"update", "stats", "ps"}
  /\ ret' = WithOutcome(Return(op, e, "none", "none", state[e], exit_signal[e],
                               "none"),
                        ExecQueryResult(op))
  /\ UNCHANGED <<container, record, world, tasks, call>>
  /\ UNCHANGED mon

\* --------------------------------------------------------------- environment
\* The process of p exits and is reaped by the monitor; the event is queued.
\* A created container's init blocks until the runtime start.
Die(p, code) ==
  /\ Quiet /\ alive[p]
  /\ p = INIT => rt = "running"
  /\ alive' = [alive EXCEPT ![p] = FALSE]
  /\ pending' = [pending EXCEPT ![p] = code]
  /\ rt' = IF p = INIT THEN "stopped" ELSE rt
  /\ ret' = NoRet
  /\ UNCHANGED <<container, record, tasks, call>>
  /\ UNCHANGED mon

\* The exit notification is applied to the record of p (set_exited): state,
\* exit code and time.  The ExitSignal is a private field of the lifecycle and
\* is fired by its delete only.
\* variant: a later notification stores its code and timestamp again
set_exited_Overwrite(old_code, old_at, code, at) == [code |-> code, at |-> at]

\* notify_exit(code, at) is idempotent: once exited_at is set, the stored
\* code and timestamp are kept
set_exited(old_code, old_at, code, at) ==
  IF old_at # 0 THEN [code |-> old_code, at |-> old_at]
  ELSE [code |-> code, at |-> at]

NotifyExit(p, at) ==
  /\ Idle /\ state[p] # "NONE" /\ pending[p] # -1
  /\ p = INIT => container
  /\ state' = [state EXCEPT ![p] = "STOPPED"]
  /\ LET x == set_exited(exit_code[p], exited_at[p], pending[p], at)
     IN /\ exit_code' = [exit_code EXCEPT ![p] = x.code]
        /\ exited_at' = [exited_at EXCEPT ![p] = x.at]
  /\ pending' = [pending EXCEPT ![p] = -1]
  /\ ret' = Return("exit", p, "ok", "none", state[p], exit_signal[p], "none")
  /\ UNCHANGED <<container, pid, console, stdio, exit_signal, rt, alive,
                 tasks, call>>
  /\ UNCHANGED mon

\* ---------------------------------------------------------------- copy tasks
\* variant: a select! without the exit_signal.wait() branch
SignalBranch_Absent(t) == FALSE

\* variant: the task ends without running its on_close hook
on_close_Skip(t) == [NoTask EXCEPT !.keep = t.keep]

\* `if let Some(f) = on_close { f(); }` at the end of the task: the keep-alive
\* FD the closure owns is dropped, and the task is over
on_close(t) == NoTask

\* the exit_signal.wait() branch of the select! is ready
SignalBranch(t) == t.fired

\* select! completes through exit_signal.wait(); on_close drops the keep-alive
TaskExitSignal(s) ==
  /\ tasks[s].status = "running"
  /\ SignalBranch(tasks[s])
  /\ tasks' = [tasks EXCEPT ![s] = on_close(tasks[s])]
  /\ ret' = NoRet
  /\ UNCHANGED <<container, record, world, call>>
  /\ UNCHANGED mon

\* select! completes through tokio::io::copy (EOF or error); on_close runs
TaskCopyEnd(s) ==
  /\ Quiet /\ tasks[s].status = "running"
  /\ tasks' = [tasks EXCEPT ![s] = on_close(tasks[s])]
  /\ ret' = NoRet
  /\ UNCHANGED <<container, record, world, call>>
  /\ UNCHANGED mon

\* ------------------------------------------------------------------- reply
\* the result of the call that returned is handed back to the caller
Reply ==
  /\ ~Quiet
  /\ ret' = NoRet
  /\ UNCHANGED <<container, record, world, tasks, call>>
  /\ UNCHANGED mon

\* ------------------------------------------------------------- specification
Next ==
  \/ \E io \in StdioConfigs, ok \in BOOLEAN : CreateBegin(io, ok)
  \/ \E e \in Execs : ExecStartBegin(e)
  \/ \E ok \in BOOLEAN : ConsoleSocketNew(ok)
  \/ \E ok \in BOOLEAN, copy \in BOOLEAN : CreateIo(ok, copy)
  \/ \E ok \in BOOLEAN : RuntimeCreate(ok)
  \/ \E ok \in BOOLEAN : RuntimeExec(ok)
  \/ \E ok \in BOOLEAN : ConsoleAccept(ok)
  \/ \E ok \in BOOLEAN : ReceiveFd(ok)
  \/ \E ok \in BOOLEAN : ConsoleStdin(ok)
  \/ \E ok \in BOOLEAN : ConsoleStdout(ok)
  \/ ConsoleDone
  \/ \E ok \in BOOLEAN : CopyIoStdin(ok)
  \/ \E ok \in BOOLEAN : CopyIoStdout(ok)
  \/ \E ok \in BOOLEAN : CopyIoStderr(ok)
  \/ \E ok \in BOOLEAN : ReadPid(ok)
  \/ Cancel
  \/ \E ok \in BOOLEAN : InitStart(ok)
  \/ \E rtok \in BOOLEAN, msg \in AbsentMsgs \cup OtherMsgs \cup {<<>>} :
        InitDelete(rtok, msg)
  \/ \E done \in BOOLEAN : InitDeleteCancel(done)
  \/ \E ok \in BOOLEAN : InitKill(ok)
  \/ \E op \in {"update", "stats", "ps"}, ok \in BOOLEAN : InitQuery(op, ok)
  \/ \E e \in Execs, io \in StdioConfigs, ok \in BOOLEAN : ExecCreate(e, io, ok)
  \/ \E e \in Execs, signal \in Signals, all \in BOOLEAN : ExecKill(e, signal, all)
  \/ \E e \in Execs : ExecDelete(e)
  \/ \E e \in Execs, op \in {"update", "stats", "ps"} : ExecQuery(e, op)
  \/ \E p \in Procs, code \in Codes : Die(p, code)
  \/ \E p \in Procs, at \in Times : NotifyExit(p, at)
  \/ \E s \in Slots : TaskExitSignal(s)
  \/ \E s \in Slots : TaskCopyEnd(s)
  \/ Reply

Spec == Init /\ [][Next]_vars

\* the runtime polls every spawned task, so a task whose exit_signal.wait()
\* branch is ready completes, and a result is handed back
Fairness ==
  /\ \A s \in Slots : WF_vars(TaskExitSignal(s))
  /\ WF_vars(Reply)

FairSpec == Spec /\ Fairness

\* ------------------------------------------------- exit monitor and execute
\* variant: the subscription is not in the table yet when subscribe returns
monitor_subscribe_Late(ss, id) == ss

\* subscribe(topic): the subscription is in the table when it returns
monitor_subscribe(ss, id) == ss \cup {id}

\* variant: unsubscribe leaves the subscription in the table
monitor_unsubscribe_Keep(ss, id) == ss

\* unsubscribe(id): removes the subscription; safe if already removed
monitor_unsubscribe(ss, id) == ss \ {id}

\* variant: a full channel refuses the new message
Forward_DropNewest(q, k) == IF Len(q) >= Cap THEN q ELSE Append(q, k)

\* non-blocking send to one subscription: a full channel drops its oldest
\* message
Forward(q, k) == IF Len(q) >= Cap THEN Append(Tail(q), k) ELSE Append(q, k)

\* variant: the receiver takes the newest message of the channel
rx_recv_Newest(q) == [ev |-> q[Len(q)], rest |-> SubSeq(q, 1, Len(q) - 1)]

\* s.rx.recv(): the oldest message of the channel
rx_recv(q) == [ev |-> Head(q), rest |-> Tail(q)]

\* execute: monitor_subscribe(Topic::Pid), before the spawn; its error is
\* returned by the `?` ("nosub"). The calls are numbered, and the subscription
\* of a call gets the number of the call as its id.
ExecuteSubscribe(ok) ==
  /\ next_id <= MaxSubs
  /\ next_id' = next_id + 1
  /\ IF ok
       THEN /\ subs' = monitor_subscribe(subs, next_id)
            /\ exec' = [exec EXCEPT ![next_id] = [NoExec EXCEPT !.pc = "subscribed"]]
       ELSE /\ subs' = subs
            /\ exec' = [exec EXCEPT ![next_id] = [NoExec EXCEPT !.pc = "nosub"]]
  /\ chan' = [chan EXCEPT ![next_id] = <<>>]
  /\ UNCHANGED <<notified, sent, received, shim>>

\* execute: cmd.spawn(); on failure unsubscribe and return ProcessSpawnFailed.
\* The child gets a pid that no other child waited for has, and that was not
\* the pid of a process whose exit was notified since the subscription.
ExecuteSpawn(id, ok, p) ==
  /\ exec[id].pc = "subscribed"
  /\ \A j \in SubIds : exec[j].pc = "waiting" => exec[j].pid # p
  /\ ok => \A k \in sent[id] : notified[k].pid # p
  /\ IF ok
       THEN /\ exec' = [exec EXCEPT ![id].pc = "waiting", ![id].pid = p]
            /\ subs' = subs
       ELSE /\ exec' = [exec EXCEPT ![id].pc = "failed"]
            /\ subs' = monitor_unsubscribe(subs, id)
  /\ UNCHANGED <<next_id, chan, notified, sent, received, shim>>

\* read_std(child.stdout) / read_std(child.stderr) reaches the end of file
ReadStd(id, st) ==
  /\ exec[id].pc \in {"waiting", "waited"} /\ ~exec[id][st]
  /\ exec' = [exec EXCEPT ![id][st] = TRUE]
  /\ UNCHANGED <<subs, next_id, chan, notified, sent, received, shim>>

\* variant: wait_pid returns on the first event, whatever its pid
IsExitOf_Any(p, e) == TRUE

\* `if pid == epid` of wait_pid
IsExitOf(p, e) == p = e.pid

\* one turn of the loop of wait_pid: recv an event; if it is the exit of the
\* child, unsubscribe and return its code
WaitPid(id) ==
  /\ exec[id].pc = "waiting" /\ chan[id] # <<>>
  /\ LET m == rx_recv(chan[id])
         e == notified[m.ev]
     IN /\ chan' = [chan EXCEPT ![id] = m.rest]
        /\ received' = [received EXCEPT ![id] = Append(@, m.ev)]
        /\ IF IsExitOf(exec[id].pid, e)
             THEN /\ subs' = monitor_unsubscribe(subs, id)
                  /\ exec' = [exec EXCEPT ![id].pc = "waited", ![id].code = e.code]
             ELSE UNCHANGED <<subs, exec>>
  /\ UNCHANGED <<next_id, notified, sent, shim>>

\* execute: the join is complete; unsubscribe (again) and return Ok
ExecuteReturn(id) ==
  /\ exec[id].pc = "waited" /\ exec[id].out /\ exec[id].err
  /\ subs' = monitor_unsubscribe(subs, id)
  /\ exec' = [exec EXCEPT ![id].pc = "done"]
  /\ UNCHANGED <<next_id, chan, notified, sent, received, shim>>

\* notify(ExitEvent) from the SIGCHLD handler: forwarded to every live
\* subscription by a non-blocking send
MonitorNotify(p, code) ==
  /\ Len(notified) < MaxEvents
  /\ LET k == Len(notified) + 1
     IN /\ notified' = Append(notified, [pid |-> p, code |-> code])
        /\ chan' = [id \in SubIds |->
                      IF id \in subs THEN Forward(chan[id], k) ELSE chan[id]]
        /\ sent' = [id \in SubIds |->
                      IF id \in subs THEN sent[id] \cup {k} ELSE sent[id]]
        /\ exec' = [id \in SubIds |->
                      IF exec[id].pc = "waiting" /\ id \notin subs
                         /\ exec[id].pid = p
                        THEN [exec[id] EXCEPT !.missed = TRUE] ELSE exec[id]]
  /\ UNCHANGED <<subs, next_id, received, shim>>

MonitorNext ==
  \/ \E ok \in BOOLEAN : ExecuteSubscribe(ok)
  \/ \E id \in SubIds, ok \in BOOLEAN, p \in ChildPids : ExecuteSpawn(id, ok, p)
  \/ \E id \in SubIds, st \in {"out", "err"} : ReadStd(id, st)
  \/ \E id \in SubIds : WaitPid(id)
  \/ \E id \in SubIds : ExecuteReturn(id)
  \/ \E e \in ExitEvents : MonitorNotify(e.pid, e.code)

MonitorSpec == Init /\ [][MonitorNext]_vars

\* execute runs on from the subscription to the spawn without waiting, and
\* the runtime polls the joined futures of execute whenever they can proceed
MonitorFairness ==
  /\ \A id \in SubIds :
       /\ WF_vars(\E ok \in BOOLEAN, p \in ChildPids : ExecuteSpawn(id, ok, p))
       /\ WF_vars(ReadStd(id, "out"))
       /\ WF_vars(ReadStd(id, "err"))
       /\ WF_vars(WaitPid(id))
       /\ WF_vars(ExecuteReturn(id))

MonitorFairSpec == MonitorSpec /\ MonitorFairness

\* --------------------------------------- execute on a subscription that ends
\* unsubscribe(id) by another caller, or the monitor dropping the sender of
\* the subscription, while wait_pid waits: the channel of wait_pid is closed
MonitorClose(id) ==
  /\ exec[id].pc = "waiting" /\ id \in subs
  /\ subs' = monitor_unsubscribe(subs, id)
  /\ UNCHANGED <<next_id, chan, notified, sent, received, exec, shim>>

\* one turn of the loop of wait_pid on a closed and drained channel:
\* s.rx.recv() is None, the `if let` does not match, and the loop goes round
WaitPidNone(id) ==
  /\ exec[id].pc = "waiting" /\ id \notin subs /\ chan[id] = <<>>
  /\ UNCHANGED vars

CloseNext ==
  \/ \E ok \in BOOLEAN : ExecuteSubscribe(ok)
  \/ \E id \in SubIds, ok \in BOOLEAN, p \in ChildPids : ExecuteSpawn(id, ok, p)
  \/ \E id \in SubIds, st \in {"out", "err"} : ReadStd(id, st)
  \/ \E id \in SubIds : WaitPid(id)
  \/ \E id \in SubIds : WaitPidNone(id)
  \/ \E id \in SubIds : ExecuteReturn(id)
  \/ \E e \in ExitEvents : MonitorNotify(e.pid, e.code)
  \/ \E id \in SubIds : MonitorClose(id)

CloseSpec == Init /\ [][CloseNext]_vars

CloseFairSpec == CloseSpec /\ MonitorFairness

\* ------------------------------------- repeated delete of one init process
\* RuncInitLifecycle::delete applied again and again to the same InitProcess
\* (it takes &mut InitProcess, so two calls never overlap), with the copy
\* tasks that hold a clone of its ExitSignal.
\* on_close of the copy task of a stream: Some for every stream but the stdin
\* of pipe mode
KeepOf(io, stream) == io.terminal \/ stream # "stdin"

\* the streams copy_io / copy_console spawn a copy task for
WiredStreams(io) ==
  {st \in Streams : io[st] /\ (io.terminal => st # "stderr")}

RuncInitDelete(rtok, msg) ==
  /\ Idle /\ container
  /\ rtok => rt # "none"
  /\ msg \in IF rtok THEN {<<>>} ELSE DeleteMsgs
  /\ LET done == InitDeleteOk(rtok, msg)
         sig == InitDeleteSignals(rtok, msg)
     IN /\ rt' = IF rtok THEN "none" ELSE rt
        /\ alive' = IF rtok THEN [p \in Procs |-> FALSE] ELSE alive
        /\ exit_signal' = [exit_signal EXCEPT ![INIT] = @ \/ sig]
        /\ tasks' = IF sig THEN Fire(tasks, {INIT}) ELSE tasks
        /\ ret' = [Return("delete", INIT, IF done THEN "ok" ELSE "err",
                          IF done THEN "none" ELSE "Other",
                          state[INIT], exit_signal[INIT], "none")
                     EXCEPT !.msg = IF rtok THEN <<>> ELSE msg]
  /\ UNCHANGED <<container, state, pid, exit_code, exited_at, console, stdio,
                 pending, call, mon>>

DeleteInit ==
  /\ MonitorInit
  /\ container = TRUE
  /\ state \in [Procs -> Live \cup {"NONE"}]
  /\ state[INIT] # "NONE" /\ \A e \in Execs : state[e] = "NONE"
  /\ pid = [p \in Procs |-> IF p = INIT THEN 1 ELSE 0]
  /\ exit_code = [p \in Procs |-> 0]
  /\ exited_at = [p \in Procs |->
                    IF p = INIT /\ state[p] = "STOPPED" THEN 1 ELSE 0]
  /\ console \in [Procs -> BOOLEAN]
  /\ stdio \in [Procs -> StdioConfigs \cup {NoStdio}]
  /\ \A e \in Execs : stdio[e] = NoStdio
  /\ stdio[INIT] # NoStdio
  /\ \A p \in Procs : console[p] <=> (p = INIT /\ stdio[p].terminal)
  /\ exit_signal = [p \in Procs |-> FALSE]
  /\ rt = CASE state[INIT] = "CREATED" -> "created"
            [] state[INIT] = "RUNNING" -> "running"
            [] state[INIT] = "STOPPED" -> "stopped"
  /\ alive = [p \in Procs |-> p = INIT /\ state[p] # "STOPPED"]
  /\ pending = [p \in Procs |-> -1]
  /\ \E W \in SUBSET WiredStreams(stdio[INIT]) :
       tasks = [s \in Slots |->
                  IF s[1] = INIT /\ s[2] \in W
                    THEN [owner |-> INIT, stream |-> s[2], status |-> "running",
                          cur |-> TRUE, fired |-> FALSE,
                          keep |-> KeepOf(stdio[INIT], s[2])]
                    ELSE NoTask]
  /\ call = NoCall
  /\ ret = NoRet

DeleteNext ==
  \/ \E rtok \in BOOLEAN, msg \in AbsentMsgs \cup OtherMsgs \cup {<<>>} :
        RuncInitDelete(rtok, msg)
  \/ \E s \in Slots : TaskExitSignal(s)
  \/ \E s \in Slots : TaskCopyEnd(s)
  \/ Reply

DeleteSpec == DeleteInit /\ [][DeleteNext]_vars

\* -------------------------------------------- kill and queries on any record
\* The single-step operations as functions of the record they are applied to.
\* The pid is whatever i32 the pid-file parsed to, which the code stores
\* without a test; an exec restarted after its exit is RUNNING with exited_at
\* still set.
QueryPids == {-1, 0, 1}

QueryInit ==
  /\ MonitorInit
  /\ container = TRUE
  /\ state \in [Procs -> Live \cup {"NONE"}]
  /\ state[INIT] # "NONE"
  /\ pid \in [Procs -> QueryPids]
  /\ \A e \in Execs : pid[e] > 0 <=> state[e] \in {"RUNNING", "STOPPED"}
  /\ \A e \in Execs : pid[e] >= 0
  /\ exited_at \in [Procs -> {0} \cup Times]
  /\ \A p \in Procs : (state[p] = "STOPPED") => (exited_at[p] # 0)
  /\ \A p \in Procs : (state[p] \in {"NONE", "CREATED"}) => (exited_at[p] = 0)
  /\ (exited_at[INIT] # 0) => (state[INIT] = "STOPPED")
  /\ exit_code = [p \in Procs |-> 0]
  /\ console = [p \in Procs |-> FALSE]
  /\ stdio = [p \in Procs |-> NoStdio]
  /\ exit_signal = [p \in Procs |-> FALSE]
  /\ rt = CASE state[INIT] = "CREATED" -> "created"
            [] state[INIT] = "RUNNING" -> "running"
            [] state[INIT] = "STOPPED" -> "stopped"
  /\ alive \in [Procs -> BOOLEAN]
  /\ \A p \in Procs : alive[p] => (pid[p] > 0 /\ exited_at[p] = 0)
  /\ pending = [p \in Procs |-> -1]
  /\ tasks = [s \in Slots |-> NoTask]
  /\ call = NoCall
  /\ ret = NoRet

QueryNext ==
  \/ \E ok \in BOOLEAN : InitKill(ok)
  \/ \E op \in {"update", "stats", "ps"}, ok \in BOOLEAN : InitQuery(op, ok)
  \/ \E e \in Execs, signal \in Signals, all \in BOOLEAN : ExecKill(e, signal, all)
  \/ \E e \in Execs, op \in {"update", "stats", "ps"} : ExecQuery(e, op)
  \/ Reply

QuerySpec == QueryInit /\ [][QueryNext]_vars

\* ------------------------------------------------------------------- claims
\* the state of p as the callers of the container see it: the InitProcess of
\* a create in flight is not a record yet
Observed(p) == IF p = INIT /\ ~container THEN "NONE" ELSE state[p]

\* an edge of the state machine, taken by the operation r; a deleted process
\* has no record left
Edge(a, b, r) ==
  \/ a = "NONE" /\ b = "CREATED" /\ r.op \in {"create", "exec"}
  \/ a = "CREATED" /\ b = "RUNNING" /\ r.op = "start"
  \/ a = "RUNNING" /\ b = "STOPPED" /\ r.op = "exit"
  \/ a \in Live /\ b \in {"DELETED", "NONE"} /\ r.op = "delete"

\* C1: every change of a process's state follows an edge of the state machine
\* (create, start, exit, delete); start never moves a STOPPED process to RUNNING.
C1_StateMachine ==
  [][\A p \in Procs :
       Observed(p)' # Observed(p) => Edge(Observed(p), Observed(p)', ret')]_vars

InitDeleteReturned == ret.op = "delete" /\ ret.proc = INIT /\ ret.res \in {"ok", "err"}

\* C3 as stated: whenever init delete returns, the init's ExitSignal is fired.
C3_SignalRegardless == InitDeleteReturned => exit_signal[INIT]

\* C3 amended: init delete fires the ExitSignal iff it returns success, that is
\* iff the runtime delete succeeded or failed with "does not exist"; on any
\* other error it returns the error and leaves the ExitSignal as it was.
C3_SignalIffSuccess ==
  InitDeleteReturned =>
    /\ ret.res = "ok" <=> ret.msg \in AbsentMsgs \cup {<<>>}
    /\ ret.res = "ok" => exit_signal[INIT]
    /\ ret.res = "err" => exit_signal[INIT] = ret.sig /\ ~exit_signal[INIT]

C3_Witness ==
  InitDeleteReturned /\ ret.res = "err" /\ ret.msg \in OtherMsgs /\ ~exit_signal[INIT]

\* C4: when the runtime delete fails with a "does not exist" message, in any
\* letter case, init delete returns success, the ExitSignal is fired and no
\* copy task of the init is left waiting on an unfired signal.
C4_AbsentIsSuccess ==
  (InitDeleteReturned /\ ret.msg \in AbsentMsgs) =>
    /\ ret.res = "ok"
    /\ exit_signal[INIT]
    /\ \A st \in Streams :
         tasks[<<INIT, st>>].status # "none" => tasks[<<INIT, st>>].fired

C4_Witness ==
  /\ InitDeleteReturned /\ ret.msg = MsgAbsentUpper /\ ret.res = "ok"
  /\ exit_signal[INIT]
  /\ \E st \in Streams : tasks[<<INIT, st>>].status # "none"

\* C5: a copy task whose process's ExitSignal has fired eventually terminates,
\* with no step of the copy itself (EOF, source or sink activity) required.
C5_TasksEndOnSignal ==
  \A s \in Slots :
    (tasks[s].status # "none" /\ tasks[s].fired) ~> (tasks[s].status = "none")

\* a task whose copy has not ended holds a fired signal
C5_Witness == \E s \in Slots : tasks[s].status = "running" /\ tasks[s].fired

WiringReturned == ret.op \in {"create", "start"} /\ ret.sock # "none"

\* C7: a terminal-mode create or exec start that made a console socket has
\* cleaned it when it returns, with success or with any error.
C7_SocketCleanedOnReturn ==
  (WiringReturned /\ ret.res \in {"ok", "err"}) => ret.sock = "cleaned"

C7_Witness ==
  WiringReturned /\ ret.op = "create" /\ ret.res = "err" /\ ret.sock = "cleaned"
    /\ rt = "none"

\* C8: a terminal-mode create or exec start that is cancelled after its
\* console socket was made has cleaned the socket.
C8_SocketCleanedOnCancel ==
  (WiringReturned /\ ret.res = "cancelled") => ret.sock = "cleaned"

\* C9: a start that fails on a CREATED process leaves it CREATED.
C9_FailedStartStaysCreated ==
  (ret.op = "start" /\ ret.res = "err" /\ ret.pre = "CREATED") =>
    state[ret.proc] = "CREATED"

C9_Witness ==
  /\ ret.op = "start" /\ ret.res = "err" /\ ret.pre = "CREATED"
  /\ ret.proc \in Execs /\ console[ret.proc] /\ state[ret.proc] = "CREATED"

\* C10: a create that fails returns an error and leaves no container record.
C10_FailedCreateNoRecord ==
  (ret.op = "create" /\ ret.res = "err") =>
    ret.kind # "none" /\ ~container /\ state[INIT] = "NONE"

C10_Witness ==
  ret.op = "create" /\ ret.res = "err" /\ rt = "created" /\ ~container

\* C11: when an init create or an exec start returns an error, no copy task
\* the call spawned is left running.
C11_NoTaskAfterError ==
  (ret.op \in {"create", "start"} /\ ret.res = "err") => NoTasksOf(ret.proc)

ExecKillReturned == ret.op = "kill" /\ ret.proc \in Execs

\* C12: exec kill with pid <= 0 returns FailedPrecondition, otherwise with
\* exited_at set it returns NotFound, and in both cases nothing is sent; a
\* signal is sent only with pid > 0 and exited_at unset, and then by the OS
\* kill to that pid.
C12_ExecKillPreconditions ==
  ExecKillReturned =>
    LET e == ret.proc
    IN /\ pid[e] <= 0 =>
            ret.res = "err" /\ ret.kind = "FailedPrecondition" /\ ret.effect = "none"
       /\ (pid[e] > 0 /\ exited_at[e] # 0) =>
            ret.res = "err" /\ ret.kind = "NotFound" /\ ret.effect = "none"
       /\ ret.effect # "none" =>
            /\ ret.effect = "os_kill" /\ ret.to = pid[e]
            /\ pid[e] > 0 /\ exited_at[e] = 0

C12_Witness ==
  /\ ExecKillReturned /\ ret.kind = "NotFound" /\ ret.effect = "none"
  /\ pid[ret.proc] > 0 /\ exited_at[ret.proc] # 0

KillReturned == ret.op = "kill" /\ ret.res # "panic"

\* C13 as stated: kill on a CREATED or RUNNING process is carried out, kill on
\* a STOPPED process returns an error and neither invokes the runtime nor
\* sends a signal.
C13_KillByState ==
  KillReturned =>
    /\ ret.pre \in {"CREATED", "RUNNING"} => ret.effect # "none"
    /\ ret.pre = "STOPPED" => ret.res = "err" /\ ret.effect = "none"

\* C13 amended: init kill invokes the runtime kill in every state of the
\* record; exec kill sends the OS signal exactly when pid > 0 and exited_at is
\* unset, which happens only in RUNNING, and returns an error without sending
\* anything in CREATED and in STOPPED.
C13_KillByVariant ==
  KillReturned =>
    /\ ret.proc = INIT => ret.effect = "runtime_kill"
    /\ ret.proc \in Execs =>
         /\ ret.effect = "os_kill" <=> (pid[ret.proc] > 0 /\ exited_at[ret.proc] = 0)
         /\ ret.pre \in {"CREATED", "STOPPED"} => ret.res = "err" /\ ret.effect = "none"
         /\ ret.effect = "os_kill" => ret.pre = "RUNNING"

C13_Witness ==
  /\ KillReturned /\ ret.proc = INIT /\ ret.pre = "STOPPED"
  /\ ret.effect = "runtime_kill"
  /\ \E e \in Execs : state[e] = "CREATED"

InitQueryReturned == ret.op \in {"update", "stats", "ps"} /\ ret.proc = INIT

\* C14 as stated: update, stats and ps on an init process that is not RUNNING
\* return an error and touch neither the cgroup nor the runtime.
C14_QueriesNeedRunning ==
  (InitQueryReturned /\ ret.pre # "RUNNING") =>
    (ret.res = "err" /\ ret.effect = "none")

\* C14 amended: init update and stats are carried out exactly when pid > 0,
\* whatever the state, and ps always invokes the runtime ps; none of them
\* tests the state.
C14_QueriesByPid ==
  InitQueryReturned =>
    /\ (ret.op = "update") => (ret.effect = IF pid[INIT] > 0 THEN "cgroup_write" ELSE "none")
    /\ (ret.op = "stats") => (ret.effect = IF pid[INIT] > 0 THEN "cgroup_read" ELSE "none")
    /\ (ret.op = "ps") => (ret.effect = "runtime_ps")
    /\ (ret.effect = "none") => (ret.res = "err")

C14_Witness ==
  /\ InitQueryReturned /\ ret.op = "update" /\ ret.pre = "STOPPED"
  /\ ret.effect = "cgroup_write" /\ ret.res = "ok"

\* C16: init stats on a process whose pid is not greater than 0 fails with
\* the FailedPrecondition kind and reads no metrics.
C16_StatsFailedPrecondition ==
  (ret.op = "stats" /\ ret.proc = INIT /\ pid[INIT] <= 0) =>
    (ret.res = "err" /\ ret.kind = "FailedPrecondition" /\ ret.effect = "none")

ExecQueryReturned == ret.op \in {"update", "stats", "ps"} /\ ret.proc \in Execs

\* C15: update, stats and ps on an exec process return the Unimplemented
\* error in every state of the exec, and the step that returns it changes
\* neither the process records nor any ExitSignal.
C15_ExecQueriesUnimplemented ==
  [][(ret' # ret /\ ExecQueryReturned') =>
       (/\ ret'.res = "err" /\ ret'.kind = "Unimplemented"
        /\ ret'.effect = "none"
        /\ record' = record)]_vars

C15_Witness ==
  /\ ExecQueryReturned /\ ret.op = "stats" /\ ret.pre = "STOPPED"
  /\ ret.kind = "Unimplemented" /\ state[ret.proc] = "STOPPED"

\* C17: exec kill ignores the `all` flag: on any exec record and for any
\* signal, the call with all = TRUE has the result of the call with
\* all = FALSE and sends the same single signal to the same pid.
C17_ExecKillIgnoresAll ==
  /\ \A e \in Execs, signal \in Signals :
       state[e] # "NONE" =>
         ExecKillResult(pid[e], exited_at[e], signal, TRUE, alive[e])
           = ExecKillResult(pid[e], exited_at[e], signal, FALSE, alive[e])
  /\ (ExecKillReturned /\ ret.effect = "os_kill") => (ret.to = pid[ret.proc])

C17_Witness ==
  /\ ExecKillReturned /\ ret.all /\ ret.effect = "os_kill"
  /\ ret.to = pid[ret.proc] /\ ret.res = "ok"

\* the stream whose FIFO the wiring step at pc opens
StreamOf(pc) ==
  CASE pc \in {"io_stdin", "con_stdin"} -> "stdin"
    [] pc \in {"io_stdout", "con_stdout"} -> "stdout"
    [] pc = "io_stderr" -> "stderr"
    [] OTHER -> "none"

\* C20: a stream whose path is empty is not wired: a step spawns a copy task
\* for a stream only when the path of that stream is non-empty (stdin, stdout
\* and stderr in pipe mode, stdin and stdout in terminal mode), and the call
\* reaches the step that opens the FIFO of a stream only for a non-empty path.
C20_EmptyPathNotWired ==
  [][/\ \A s \in Slots :
          (tasks'[s].status = "running" /\ tasks'[s].cur /\ ~tasks[s].cur) =>
            (/\ call.proc = s[1]
             /\ stdio[s[1]][s[2]]
             /\ stdio[s[1]].terminal => s[2] \in {"stdin", "stdout"}
             /\ StreamOf(call.pc) = s[2])
     /\ StreamOf(call'.pc) # "none" =>
          stdio'[call'.proc][StreamOf(call'.pc)]]_vars

C20_Witness ==
  /\ ret.op = "create" /\ ret.res = "ok" /\ ~stdio[INIT].terminal
  /\ stdio[INIT].stdin /\ ~stdio[INIT].stdout /\ stdio[INIT].stderr
  /\ tasks[<<INIT, "stdin">>].status = "running"
  /\ tasks[<<INIT, "stdout">>].status = "none"
  /\ tasks[<<INIT, "stderr">>].status = "running"

Range(q) == {q[i] : i \in 1 .. Len(q)}
Ordered(q) == \A i, j \in 1 .. Len(q) : i < j => q[i] < q[j]
\* the events a subscription has got or still holds in its channel
Kept(id) == received[id] \o chan[id]
Got(id, k) == k \in Range(received[id])
Lost(id, k) == k \in sent[id] /\ k \notin Range(Kept(id))
Full(id) == Len(chan[id]) = Cap

\* C18 as stated: every event notified while a subscription is live is
\* received by that subscription, unless its channel stays full for ever
\* (or, what the statement leaves out, the subscription is removed first).
C18_EveryEventReceived ==
  \A id \in SubIds, k \in EventIds :
    (<>[]Full(id)) \/ [](k \in sent[id] => <>(Got(id, k) \/ id \notin subs))

\* C18 amended: what a subscription receives and holds is, in the order of
\* notification, events that were notified while it was live; an event is
\* missing from it only if at least Cap later events were forwarded to the
\* subscription before it was received; and every event in the channel is
\* eventually received, unless it is dropped that way or the subscription is
\* removed first (wait_pid unsubscribes when it finds its pid).
C18_DeliveryInOrder ==
  /\ [](\A id \in SubIds :
          /\ Ordered(Kept(id))
          /\ Range(Kept(id)) \subseteq sent[id]
          /\ \A k \in EventIds :
               Lost(id, k) => Cardinality({j \in sent[id] : j > k}) >= Cap)
  /\ \A id \in SubIds, k \in EventIds :
       (k \in Range(chan[id])) ~> (Got(id, k) \/ Lost(id, k) \/ id \notin subs)

C18_Witness ==
  \E id \in subs : /\ received[id] = <<2, 3>> /\ Lost(id, 1)
                   /\ exec[id].pc = "waiting"

\* C19: notify never blocks on a subscriber: it can be carried out whatever
\* the channels hold, and its step leaves in the channel of every live
\* subscription the new event at the end, after dropping the oldest event of
\* a channel that was full; no other subscription's channel depends on it.
C19_NotifyNeverBlocks ==
  /\ [](Len(notified) < MaxEvents =>
          ENABLED (\E e \in ExitEvents : MonitorNotify(e.pid, e.code)))
  /\ [][notified' # notified =>
          \A id \in subs :
            chan'[id] = IF Full(id)
                          THEN Append(Tail(chan[id]), Len(notified'))
                          ELSE Append(chan[id], Len(notified'))]_vars

C19_Witness ==
  \E a, b \in subs : /\ a # b
                     /\ chan[a] = <<2, 3>> /\ received[a] = <<>> /\ 1 \in sent[a]
                     /\ chan[b] = <<3>> /\ 3 \in sent[b]

C23_ExitFrozen ==
  [][\A p \in Procs :
       (state[p] # "NONE" /\ state'[p] # "NONE" /\ exited_at[p] # 0) =>
         (exited_at'[p] = exited_at[p] /\ exit_code'[p] = exit_code[p])]_vars

C23_Witness ==
  /\ ret.op = "start" /\ ret.proc \in Execs /\ ret.res = "ok"
  /\ ret.pre = "STOPPED" /\ state[ret.proc] = "RUNNING"
  /\ exited_at[ret.proc] # 0 /\ exit_code[ret.proc] = 1

\* event k is an exit of the child of execute id, forwarded after the spawn
ChildEvent(id, k) ==
  /\ k \in sent[id] /\ exec[id].pc = "waiting"
  /\ notified[k].pid = exec[id].pid
Returned(id) == exec[id].pc \in {"waited", "done"}

\* C24 as stated: an exit event of the child that is notified after the
\* spawn is always seen by the wait.
C24_ExitSeenByWait ==
  \A id \in SubIds, k \in EventIds : [](ChildEvent(id, k) => <>Returned(id))

\* C24 amended: the subscription of execute is registered from before the
\* spawn until wait_pid returns, so every event notified in between, the
\* exit of the child included, is queued on it; the wait sees the exit of
\* the child unless the full channel dropped it because at least Cap later
\* events were forwarded before wait_pid received it.
C24_SubscribedBeforeSpawn ==
  /\ [](\A id \in SubIds :
          /\ exec[id].pc \in {"subscribed", "waiting"} => id \in subs
          /\ \A k \in EventIds :
               Lost(id, k) => Cardinality({j \in sent[id] : j > k}) >= Cap)
  /\ [][\A id \in SubIds :
          (notified' # notified /\ exec[id].pc \in {"subscribed", "waiting"})
            => Len(notified') \in Range(chan'[id])]_vars
  /\ \A id \in SubIds, k \in EventIds :
       ChildEvent(id, k) ~> (Returned(id) \/ Lost(id, k))

C24_Witness ==
  \E id \in SubIds :
    /\ exec[id].pc = "waited" /\ exec[id].code \in {0, 1}
    /\ received[id] = <<1, 2>> /\ sent[id] = {1, 2}
    /\ notified[1].pid # exec[id].pid /\ notified[2].pid = exec[id].pid
    /\ ~exec[id].out

\* execute has returned to its caller
ExecuteOver(id) == exec[id].pc \in {"done", "failed", "nosub"}

\* C25: when execute has returned, with Ok or with the spawn error, its
\* subscription is not in the table of the monitor; the unsubscribe that
\* execute repeats after wait_pid changes nothing; when the subscribe fails
\* execute returns without a subscription and without a child.
C25_NoSubscriptionLeak ==
  /\ [](\A id \in SubIds :
          /\ ExecuteOver(id) => id \notin subs
          /\ exec[id].pc \in {"nosub", "failed"} =>
               (exec[id].pid = 0 /\ received[id] = <<>>)
          /\ exec[id].pc = "nosub" => sent[id] = {})
  /\ [][\A id \in SubIds :
          (exec[id].pc = "waited" /\ exec'[id].pc = "done") =>
            (id \notin subs /\ subs' = subs /\ chan' = chan)]_vars

C25_Witness ==
  \E a, b \in SubIds :
    /\ exec[a].pc = "done" /\ a \notin subs /\ exec[a].pid \in ChildPids
    /\ exec[b].pc = "failed" /\ b \notin subs /\ sent[b] # {}

C27_KeepAliveWithTask ==
  /\ [](\A s \in Slots :
          /\ (tasks[s].status = "running" /\ tasks[s].cur) =>
               (tasks[s].keep = KeepOf(stdio[s[1]], s[2]))
          /\ (tasks[s].status # "running") => ~tasks[s].keep)
  /\ [][\A s \in Slots :
          /\ (tasks[s].status = "running" /\ tasks'[s].status = "running") =>
               (tasks'[s].keep = tasks[s].keep)
          /\ (tasks[s].status = "running" /\ tasks'[s].status # "running") =>
               (tasks[s].fired \/ Quiet) /\ tasks'[s] = NoTask]_vars

C27_Witness ==
  /\ container /\ call = NoCall /\ stdio[INIT] = Stdio(TRUE, TRUE, FALSE, TRUE)
  /\ tasks[<<INIT, "stdin">>] = NoTask
  /\ tasks[<<INIT, "stdout">>].status = "running"
  /\ tasks[<<INIT, "stdout">>].keep /\ tasks[<<INIT, "stdout">>].cur

\* C28 as stated: whenever exec kill sends the OS signal, the process of the
\* exec with the stored pid has not exited yet.
C28_SignalOnlyToLiveProcess ==
  (ExecKillReturned /\ ret.effect = "os_kill") => alive[ret.proc]

\* C28 amended: exec kill tests only the record. Between the reaping of the
\* process and the exit notification (exited_at still unset) a kill with a
\* valid signal does send the OS signal to the stored pid, and returns the
\* error of the OS; a signal to a process that has exited happens only in
\* that window.
C28_KillInExitWindow ==
  ExecKillReturned =>
    LET e == ret.proc IN
      /\ (pid[e] > 0 /\ exited_at[e] = 0 /\ ValidSignal(ret.signal)) =>
           (ret.effect = "os_kill" /\ ret.to = pid[e])
      /\ (ret.effect = "os_kill" /\ ~alive[e]) =>
           (pending[e] # -1 /\ ret.res = "err" /\ ret.kind = "Errno")
      /\ (ret.effect = "os_kill" /\ alive[e]) => (ret.res = "ok")

C28_Witness ==
  /\ ExecKillReturned /\ ret.effect = "os_kill" /\ ~alive[ret.proc]
  /\ pending[ret.proc] # -1 /\ state[ret.proc] = "RUNNING"
  /\ ret.res = "err" /\ ret.kind = "Errno"

\* the child of execute id has exited and its exit was notified to the
\* monitor while wait_pid was waiting
ChildExited(id) ==
  /\ exec[id].pc = "waiting"
  /\ exec[id].missed \/ \E k \in sent[id] : notified[k].pid = exec[id].pid

\* the full channel dropped an exit of the child before wait_pid received it
ChildExitDropped(id) ==
  \E k \in sent[id] : notified[k].pid = exec[id].pid /\ Lost(id, k)

\* C29: once the exit of the child of execute has been notified to the
\* monitor (its stdout and stderr reach the end of file by themselves),
\* execute eventually returns, also when the channel of its subscription is
\* closed. The case in which the full channel dropped the exit of the child
\* is set aside here.
C29_ExecuteReturns ==
  \A id \in SubIds :
    [](ChildExited(id) => <>(exec[id].pc = "done" \/ ChildExitDropped(id)))

\* ------------------------------------ the ExitSignal of each process object
\* RuncInitLifecycle::delete and RuncExecLifecycle::delete applied to the
\* process objects of one container: an init and execs, each with the copy
\* tasks that hold a clone of the ExitSignal of their own process.
SignalInit ==
  /\ MonitorInit
  /\ container = TRUE
  /\ state \in [Procs -> {"RUNNING", "STOPPED", "NONE"}]
  /\ state[INIT] # "NONE"
  /\ pid = [p \in Procs |-> IF state[p] = "NONE" THEN 0 ELSE p + 1]
  /\ exit_code = [p \in Procs |-> 0]
  /\ exited_at = [p \in Procs |-> IF state[p] = "STOPPED" THEN 1 ELSE 0]
  /\ stdio \in [Procs -> StdioConfigs \cup {NoStdio}]
  /\ \A p \in Procs : (stdio[p] = NoStdio) <=> (state[p] = "NONE")
  /\ console = [p \in Procs |-> stdio[p] # NoStdio /\ stdio[p].terminal]
  /\ exit_signal = [p \in Procs |-> FALSE]
  /\ rt = IF state[INIT] = "RUNNING" THEN "running" ELSE "stopped"
  /\ alive = [p \in Procs |-> state[p] = "RUNNING"]
  /\ pending = [p \in Procs |-> -1]
  /\ \E W \in SUBSET Slots :
       /\ \A s \in W : stdio[s[1]] # NoStdio /\ s[2] \in WiredStreams(stdio[s[1]])
       /\ tasks = [s \in Slots |->
                     IF s \in W
                       THEN [owner |-> s[1], stream |-> s[2],
                             status |-> "running", cur |-> TRUE,
                             fired |-> FALSE,
                             keep |-> KeepOf(stdio[s[1]], s[2])]
                       ELSE NoTask]
  /\ call = NoCall
  /\ ret = NoRet

SignalNext ==
  \/ \E rtok \in BOOLEAN, msg \in AbsentMsgs \cup OtherMsgs \cup {<<>>} :
        RuncInitDelete(rtok, msg)
  \/ \E e \in Execs : ExecDelete(e)
  \/ \E s \in Slots : TaskExitSignal(s)
  \/ \E s \in Slots : TaskCopyEnd(s)
  \/ Reply

SignalSpec == SignalInit /\ [][SignalNext]_vars

C31_ExecKillAlwaysReturns ==
  (/\ ret.op = "kill" /\ ret.proc \in Execs
   /\ pid[ret.proc] > 0 /\ exited_at[ret.proc] = 0) =>
    (ret.res \in {"ok", "err"})

\* C32: the pid of a process is stored only by the last step of a successful
\* init create or exec start, the step after the pid-file read that follows
\* the runtime invocation and the wiring of the I/O relay. An init create or
\* exec start that does not succeed leaves the pid as it was, and an exec
\* start stores the pid and the state RUNNING in the same step or neither.
C32_PidStoredLast ==
  [][/\ \A p \in Procs :
          (pid'[p] # pid[p] /\ pid'[p] # 0) =>
            /\ call.op \in {"create", "start"} /\ call.proc = p
            /\ call.pc = "read_pid"
            /\ ret'.op = call.op /\ ret'.proc = p /\ ret'.res = "ok"
     /\ (call.op \in {"create", "start"} /\ call'.op = "none"
         /\ ret'.res # "ok") =>
          (/\ pid'[call.proc] = pid[call.proc]
           /\ call.op = "start" => state'[call.proc] = state[call.proc])
     /\ (call.op = "start" /\ call'.op = "none" /\ ret'.res = "ok") =>
          (/\ pid'[call.proc] # pid[call.proc] /\ pid'[call.proc] > 0
           /\ state'[call.proc] = "RUNNING")]_vars

\* an exec start failed at the pid-file read, after the runtime exec
\* succeeded and a copy task was spawned: the exec was never started and its
\* pid is 0
C32_Witness ==
  /\ ret.op = "start" /\ ret.res = "err" /\ ret.proc \in Execs
  /\ pid[ret.proc] = 0 /\ state[ret.proc] = "CREATED"
  /\ \E s \in Slots :
       /\ tasks[s].owner = ret.proc /\ tasks[s].status = "running"
       /\ tasks[s].cur

====
